---- MODULE Spec2Model ----
(***************************************************************************)
(* Model of Optional<T> (src/src/optional.ts).                             *)
(*                                                                         *)
(* An Optional is an object with one private readonly slot, `value`.  The  *)
(* model keeps every Optional ever constructed in `heap`; a reference to   *)
(* an Optional is its index in `heap`.  Each method is an operator         *)
(* computed as the method's body computes it, and each public method has   *)
(* one action that calls it on a receiver in the heap (or, for the static  *)
(* factories, on an argument) and records the call in `last`.              *)
(***************************************************************************)
EXTENDS Integers, Sequences, FiniteSets

\* ---------------------------------------------------------------- bounds
MaxObjs == 2      \* Optionals constructed in one run
MaxVal  == 2      \* the non-absent values of T are the numbers 1..MaxVal

\* ---------------------------------------------------------------- values
\* JavaScript values: the two absent sentinels and the values of T.
null      == [type |-> "null"]
undefined == [type |-> "undefined"]
Num(n)    == [type |-> "number", n |-> n]
Bool(b)   == [type |-> "boolean", b |-> b]
Ref(i)    == [type |-> "Optional", ref |-> i]

Absent    == {null, undefined}
NonAbsent == {Num(n) : n \in 1..MaxVal}
AllVal    == Absent \cup NonAbsent

\* Error messages a caller may pass to orElseThrow; the fixed message of
\* get() is among them so that the two can coincide.
NoValuePresent == "No value present"
Messages       == {"msg", NoValuePresent}

\* The ways a call can end.
Return(v) == [kind |-> "return", value |-> v]
Throw(m)  == [kind |-> "throw", message |-> m]

\* Caller-supplied callbacks.  A consumer / action either returns or raises.
\* A mapping function sends every value of T to a value (possibly absent)
\* or raises; the ones tried are the constant functions, the identity and
\* the cyclic successor.
CallbackError == "callback error"
RAISE         == [type |-> "raise"]
Callbacks     == {"returns", "raises"}
MapFns        ==
    {[v \in NonAbsent |-> r] : r \in AllVal \cup {RAISE}}
        \cup {[v \in NonAbsent |-> v]}
        \cup {[v \in NonAbsent |-> Num((v.n % MaxVal) + 1)]}
Call(callee, args) == [callee |-> callee, args |-> args]

\* ------------------------------------------------------------ the class
\* private constructor(value) { this.value = value; }
Optional(value) == [value |-> value]

\* static of(value)
\* (faulty variant: the argument is not passed to the constructor)
ofDropsValue(value) == Optional(undefined)
of(value) == Optional(value)

\* static empty()
empty == Optional(undefined)

\* get()
\* (faulty variant: only null is tested)
getNullOnly(this) ==
    IF this.value = null
    THEN Throw(NoValuePresent)
    ELSE Return(this.value)
get(this) ==
    IF this.value = null \/ this.value = undefined
    THEN Throw(NoValuePresent)
    ELSE Return(this.value)

\* isPresent()
\* (faulty variant: || in place of &&)
isPresentOr(this) == this.value # null \/ this.value # undefined
isPresent(this) == this.value # null /\ this.value # undefined

\* isEmpty()
isEmpty(this) == ~isPresent(this)

\* The effect of invoking a consumer / action callback: the invocation is
\* logged, and the callback's exception (if it raises) propagates.
Invoke(callback, callee, args) ==
    [outcome |-> IF callback = "raises" THEN Throw(CallbackError)
                 ELSE Return(undefined),
     calls   |-> <<Call(callee, args)>>]
Nothing == [outcome |-> Return(undefined), calls |-> <<>>]

\* ifPresent(consumer)
ifPresent(this, consumer) ==
    IF this.value # null /\ this.value # undefined
    THEN Invoke(consumer, "consumer", <<this.value>>)
    ELSE Nothing

\* ifPresentOrElse(consumer, emptyAction)
\* (faulty variant: the else is missing, emptyAction always runs)
ifPresentOrElseNoElse(this, consumer, emptyAction) ==
    IF this.value # null /\ this.value # undefined
    THEN LET c == Invoke(consumer, "consumer", <<this.value>>) IN
         IF c.outcome.kind = "throw" THEN c
         ELSE LET e == Invoke(emptyAction, "emptyAction", <<>>) IN
              [outcome |-> e.outcome, calls |-> c.calls \o e.calls]
    ELSE Invoke(emptyAction, "emptyAction", <<>>)
ifPresentOrElse(this, consumer, emptyAction) ==
    IF this.value # null /\ this.value # undefined
    THEN Invoke(consumer, "consumer", <<this.value>>)
    ELSE Invoke(emptyAction, "emptyAction", <<>>)

\* orElse(other)
\* (faulty variants: branches swapped; only undefined is tested)
orElseSwapped(this, other) ==
    IF this.value # null /\ this.value # undefined THEN other ELSE this.value
orElseUndefinedOnly(this, other) ==
    IF this.value # undefined THEN this.value ELSE other
orElse(this, other) ==
    IF this.value # null /\ this.value # undefined THEN this.value ELSE other

\* map(fn): the result is an Optional value (not yet placed in the heap).
\* (faulty variant: the held value is re-wrapped without applying fn)
mapForgetsFn(this, fn) ==
    IF isPresent(this)
    THEN LET g == get(this) IN
         IF g.kind = "throw"
         THEN [outcome |-> g, calls |-> <<>>]
         ELSE [outcome |-> Return(of(g.value)), calls |-> <<>>]
    ELSE [outcome |-> Return(empty), calls |-> <<>>]
map(this, fn) ==
    IF isPresent(this)
    THEN LET g == get(this) IN
         IF g.kind = "throw"
         THEN [outcome |-> g, calls |-> <<>>]
         ELSE LET r == fn[g.value] IN
              [outcome |-> IF r = RAISE THEN Throw(CallbackError)
                           ELSE Return(of(r)),
               calls   |-> <<Call("fn", <<g.value>>)>>]
    ELSE [outcome |-> Return(empty), calls |-> <<>>]

\* ifEmpty(action)
\* (faulty variant: the test is negated)
ifEmptyNegated(this, action) ==
    IF isPresent(this) THEN Invoke(action, "action", <<>>) ELSE Nothing
ifEmpty(this, action) ==
    IF isEmpty(this) THEN Invoke(action, "action", <<>>) ELSE Nothing

\* orElseThrow(msg)
orElseThrow(this, msg) ==
    IF ~isPresent(this) THEN Throw(msg) ELSE Return(this.value)

\* static ofNullable(value)
\* (faulty variant: branches swapped)
ofNullableSwapped(value) ==
    IF value = null \/ value = undefined THEN of(value) ELSE empty
ofNullable(value) ==
    IF value = null \/ value = undefined THEN empty ELSE of(value)

\* ---------------------------------------------------------------- state
VARIABLES
    heap,      \* the Optionals constructed so far, in order of construction
    builtBy,   \* for each of them, the call that constructed it
    last       \* the most recent call: method, receiver, arguments,
               \* how it ended, and the callbacks it invoked, in order

vars == <<heap, builtBy, last>>

Built(op, args) == [op |-> op, args |-> args]

Record(op, this, args, outcome, calls) ==
    [op |-> op, this |-> this, args |-> args, outcome |-> outcome,
     calls |-> calls]

Init ==
    /\ heap = <<>>
    /\ builtBy = <<>>
    /\ last = Record("none", 0, <<>>, Return(undefined), <<>>)

\* A static factory call: the new Optional enters the heap and the call
\* returns a reference to it.
Construct(op, args, obj) ==
    /\ Len(heap) < MaxObjs
    /\ heap' = Append(heap, obj)
    /\ builtBy' = Append(builtBy, Built(op, args))
    /\ last' = Record(op, 0, args, Return(Ref(Len(heap) + 1)), <<>>)

\* A method call that constructs nothing.
Query(op, this, args, outcome, calls) ==
    /\ last' = Record(op, this, args, outcome, calls)
    /\ UNCHANGED <<heap, builtBy>>

Of(value) == Construct("of", <<value>>, of(value))

Empty == Construct("empty", <<>>, empty)

OfNullable(value) == Construct("ofNullable", <<value>>, ofNullable(value))

Get(this) == Query("get", this, <<>>, get(heap[this]), <<>>)

IsPresent(this) ==
    Query("isPresent", this, <<>>, Return(Bool(isPresent(heap[this]))), <<>>)

IsEmpty(this) ==
    Query("isEmpty", this, <<>>, Return(Bool(isEmpty(heap[this]))), <<>>)

IfPresent(this, consumer) ==
    LET r == ifPresent(heap[this], consumer) IN
    Query("ifPresent", this, <<consumer>>, r.outcome, r.calls)

IfPresentOrElse(this, consumer, emptyAction) ==
    LET r == ifPresentOrElse(heap[this], consumer, emptyAction) IN
    Query("ifPresentOrElse", this, <<consumer, emptyAction>>,
          r.outcome, r.calls)

OrElse(this, other) ==
    Query("orElse", this, <<other>>, Return(orElse(heap[this], other)), <<>>)

IfEmpty(this, action) ==
    LET r == ifEmpty(heap[this], action) IN
    Query("ifEmpty", this, <<action>>, r.outcome, r.calls)

OrElseThrow(this, msg) ==
    Query("orElseThrow", this, <<msg>>, orElseThrow(heap[this], msg), <<>>)

\* map returns a new Optional (or propagates fn's exception); the receiver
\* stays where it is.
\* (faulty variant: the result overwrites the receiver)
MapInPlace(this, fn) ==
    LET r == map(heap[this], fn) IN
    /\ Len(heap) < MaxObjs
    /\ IF r.outcome.kind = "return"
       THEN /\ heap' = [heap EXCEPT ![this] = r.outcome.value]
            /\ builtBy' = [builtBy EXCEPT ![this] = Built("map", <<>>)]
            /\ last' = Record("map", this, <<fn>>, Return(Ref(this)), r.calls)
       ELSE /\ last' = Record("map", this, <<fn>>, r.outcome, r.calls)
            /\ UNCHANGED <<heap, builtBy>>
Map(this, fn) ==
    LET r == map(heap[this], fn) IN
    /\ Len(heap) < MaxObjs
    /\ IF r.outcome.kind = "return"
       THEN /\ heap' = Append(heap, r.outcome.value)
            /\ builtBy' = Append(builtBy, Built("map", <<>>))
            /\ last' = Record("map", this, <<fn>>,
                              Return(Ref(Len(heap) + 1)), r.calls)
       ELSE /\ last' = Record("map", this, <<fn>>, r.outcome, r.calls)
            /\ UNCHANGED <<heap, builtBy>>

Next ==
    \/ \E value \in AllVal : Of(value)
    \/ Empty
    \/ \E value \in AllVal : OfNullable(value)
    \/ \E this \in DOMAIN heap : Get(this)
    \/ \E this \in DOMAIN heap : IsPresent(this)
    \/ \E this \in DOMAIN heap : IsEmpty(this)
    \/ \E this \in DOMAIN heap, consumer \in Callbacks :
          IfPresent(this, consumer)
    \/ \E this \in DOMAIN heap, consumer \in Callbacks,
          emptyAction \in Callbacks :
          IfPresentOrElse(this, consumer, emptyAction)
    \/ \E this \in DOMAIN heap, other \in AllVal : OrElse(this, other)
    \/ \E this \in DOMAIN heap, fn \in MapFns : Map(this, fn)
    \/ \E this \in DOMAIN heap, action \in Callbacks : IfEmpty(this, action)
    \/ \E this \in DOMAIN heap, msg \in Messages : OrElseThrow(this, msg)

Spec == Init /\ [][Next]_vars

TypeOK ==
    /\ \A i \in DOMAIN heap : heap[i].value \in AllVal
    /\ Len(heap) <= MaxObjs
    /\ Len(builtBy) = Len(heap)

\* ---------------------------------------------------------------- claims
\* The receiver of the last call, the Optional a call returned, and the
\* argument of the factory call that built heap[i].
This      == heap[last.this]
Returned  == heap[last.outcome.value.ref]
BuiltFrom(i) == builtBy[i].args[1]
IsAbsent(o)  == o.value \in Absent

\* C1: for every non-absent v, ofNullable(v).isPresent() is true and
\* ofNullable(v).get() returns v; for absent v, ofNullable(v).isEmpty() is
\* true and ofNullable(v).isPresent() is false.
C1_OfNullable ==
    \A i \in DOMAIN heap :
        builtBy[i].op = "ofNullable" =>
            LET v == BuiltFrom(i) IN
            /\ v \in NonAbsent =>
                  /\ isPresent(heap[i])
                  /\ get(heap[i]) = Return(v)
                  /\ (last.this = i /\ last.op = "isPresent")
                        => last.outcome = Return(Bool(TRUE))
                  /\ (last.this = i /\ last.op = "get")
                        => last.outcome = Return(v)
            /\ v \in Absent =>
                  /\ isEmpty(heap[i])
                  /\ ~isPresent(heap[i])
                  /\ (last.this = i /\ last.op = "isEmpty")
                        => last.outcome = Return(Bool(TRUE))
                  /\ (last.this = i /\ last.op = "isPresent")
                        => last.outcome = Return(Bool(FALSE))

C1_Witness ==
    /\ last.op = "get"
    /\ builtBy[last.this].op = "ofNullable"
    /\ BuiltFrom(last.this) \in NonAbsent
    /\ last.outcome = Return(BuiltFrom(last.this))

\* C2: get() and orElseThrow(msg) fail exactly when the container is
\* ABSENT, get() with the fixed message "No value present" and
\* orElseThrow(msg) with exactly msg; on a PRESENT container both return the
\* held value, so the two either both fail or both return the same value.
C2_ThrowExactlyWhenAbsent ==
    /\ last.op = "get" =>
          last.outcome = IF IsAbsent(This) THEN Throw("No value present")
                         ELSE Return(This.value)
    /\ last.op = "orElseThrow" =>
          last.outcome = IF IsAbsent(This) THEN Throw(last.args[1])
                         ELSE Return(This.value)
    /\ \A i \in DOMAIN heap, msg \in Messages :
          LET g == get(heap[i])
              t == orElseThrow(heap[i], msg)
          IN  /\ g.kind = t.kind
              /\ g.kind = "return" => g = t

C2_Witness ==
    /\ last.op = "orElseThrow"
    /\ IsAbsent(This)
    /\ last.args[1] = "msg"
    /\ last.outcome = Throw("msg")

\* C3 (as stated): for all v, absent ones included, and all f,
\* ofNullable(v).orElse(f) equals v, and empty().orElse(f) equals f.
C3_Original ==
    last.op = "orElse" =>
        /\ builtBy[last.this].op = "ofNullable"
              => last.outcome = Return(BuiltFrom(last.this))
        /\ builtBy[last.this].op = "empty"
              => last.outcome = Return(last.args[1])

\* C3 (amended): for all non-absent v and all f, ofNullable(v).orElse(f)
\* equals v; for absent v it equals f, and empty().orElse(f) equals f.
C3_OrElse ==
    last.op = "orElse" =>
        /\ builtBy[last.this].op = "ofNullable"
              => last.outcome =
                    IF BuiltFrom(last.this) \in NonAbsent
                    THEN Return(BuiltFrom(last.this))
                    ELSE Return(last.args[1])
        /\ builtBy[last.this].op = "empty"
              => last.outcome = Return(last.args[1])

C3_Witness ==
    /\ last.op = "orElse"
    /\ builtBy[last.this].op = "ofNullable"
    /\ BuiltFrom(last.this) \in NonAbsent
    /\ last.args[1] \in NonAbsent
    /\ last.args[1] # BuiltFrom(last.this)
    /\ last.outcome = Return(BuiltFrom(last.this))

\* C4: map(fn) on an ABSENT container returns an ABSENT container and never
\* invokes fn; on a PRESENT container holding v it invokes fn exactly once
\* with v and returns a container that is PRESENT with fn(v) when fn(v) is
\* non-absent and ABSENT when fn(v) is null or undefined; fn is invoked at
\* most once in every case.
C4_Map ==
    last.op = "map" =>
        LET fn == last.args[1] IN
        /\ Len(last.calls) <= 1
        /\ IsAbsent(This) =>
              /\ last.calls = <<>>
              /\ last.outcome.kind = "return"
              /\ IsAbsent(Returned)
        /\ ~IsAbsent(This) =>
              /\ last.calls = <<[callee |-> "fn", args |-> <<This.value>>]>>
              /\ fn[This.value] \in NonAbsent =>
                    /\ last.outcome.kind = "return"
                    /\ Returned.value = fn[This.value]
                    /\ isPresent(Returned)
              /\ fn[This.value] \in Absent =>
                    /\ last.outcome.kind = "return"
                    /\ IsAbsent(Returned)
                    /\ isEmpty(Returned)

C4_Witness ==
    /\ last.op = "map"
    /\ ~IsAbsent(This)
    /\ Len(last.calls) = 1
    /\ last.outcome.kind = "return"
    /\ Returned.value \in NonAbsent
    /\ Returned.value # This.value

\* C5: ifPresentOrElse(consumer, emptyAction) invokes exactly one of the two
\* callbacks, exactly once: consumer with the held value when PRESENT,
\* emptyAction with no arguments when ABSENT.
C5_IfPresentOrElse ==
    last.op = "ifPresentOrElse" =>
        last.calls = IF IsAbsent(This)
                     THEN <<[callee |-> "emptyAction", args |-> <<>>]>>
                     ELSE <<[callee |-> "consumer", args |-> <<This.value>>]>>

C5_Witness ==
    /\ last.op = "ifPresentOrElse"
    /\ ~IsAbsent(This)
    /\ last.outcome.kind = "return"
    /\ last.calls = <<[callee |-> "consumer", args |-> <<This.value>>]>>

\* C6: ifPresent(consumer) invokes consumer exactly once with the held value
\* when PRESENT and never when ABSENT; ifEmpty(action) invokes action exactly
\* once when ABSENT and never when PRESENT; for any container exactly one of
\* the two callbacks fires.
C6_IfPresentIfEmpty ==
    /\ last.op = "ifPresent" =>
          last.calls = IF IsAbsent(This) THEN <<>>
                       ELSE <<[callee |-> "consumer",
                               args |-> <<This.value>>]>>
    /\ last.op = "ifEmpty" =>
          last.calls = IF IsAbsent(This)
                       THEN <<[callee |-> "action", args |-> <<>>]>>
                       ELSE <<>>
    /\ \A i \in DOMAIN heap, consumer \in Callbacks, action \in Callbacks :
          Len(ifPresent(heap[i], consumer).calls)
              + Len(ifEmpty(heap[i], action).calls) = 1

C6_Witness ==
    /\ last.op = "ifEmpty"
    /\ ~IsAbsent(This)
    /\ last.calls = <<>>

\* C7: every container built by of, empty, ofNullable or map is in exactly
\* one of the two states: isPresent() and isEmpty() are complements, and a
\* container for which isPresent() is true holds neither null nor undefined.
C7_TwoStates ==
    \A i \in DOMAIN heap :
        /\ isPresent(heap[i]) # isEmpty(heap[i])
        /\ isPresent(heap[i]) => heap[i].value \notin {null, undefined}
        /\ (last.this = i /\ last.op = "isPresent")
              => last.outcome = Return(Bool(~IsAbsent(heap[i])))
        /\ (last.this = i /\ last.op = "isEmpty")
              => last.outcome = Return(Bool(IsAbsent(heap[i])))

C7_Witness ==
    /\ last.op = "isPresent"
    /\ builtBy[last.this].op = "map"
    /\ This.value = null
    /\ last.outcome = Return(Bool(FALSE))

\* C8: a container is immutable after construction: no call, whether it
\* returns or raises, changes any existing container; map produces a new
\* container and leaves the receiver unchanged.
C8_Immutable ==
    [][\A i \in DOMAIN heap : i \in DOMAIN heap' /\ heap'[i] = heap[i]]_vars

C8_Witness ==
    /\ last.op = "map"
    /\ last.outcome.kind = "return"
    /\ last.outcome.value.ref # last.this
    /\ Returned # This
    /\ ~IsAbsent(This)

\* Containers the claim C9 is about: built by of(null), ofNullable(null),
\* ofNullable(undefined) or empty().
FromAbsent(i) ==
    \/ builtBy[i].op = "empty"
    \/ builtBy[i].op = "ofNullable" /\ BuiltFrom(i) \in Absent
    \/ builtBy[i].op = "of" /\ BuiltFrom(i) = null

\* Every operation has the outcome for ABSENT on o.
AbsentOutcomes(o) ==
    /\ get(o) = Throw("No value present")
    /\ ~isPresent(o)
    /\ isEmpty(o)
    /\ \A c \in Callbacks :
          ifPresent(o, c) = [outcome |-> Return(undefined), calls |-> <<>>]
    /\ \A c \in Callbacks, e \in Callbacks :
          /\ ifPresentOrElse(o, c, e).calls =
                <<[callee |-> "emptyAction", args |-> <<>>]>>
          /\ ifPresentOrElse(o, c, e).outcome.kind = "throw" <=> e = "raises"
    /\ \A a \in Callbacks :
          /\ ifEmpty(o, a).calls = <<[callee |-> "action", args |-> <<>>]>>
          /\ ifEmpty(o, a).outcome.kind = "throw" <=> a = "raises"
    /\ \A f \in AllVal : orElse(o, f) = f
    /\ \A msg \in Messages : orElseThrow(o, msg) = Throw(msg)
    /\ \A fn \in MapFns :
          /\ map(o, fn).calls = <<>>
          /\ map(o, fn).outcome.kind = "return"
          /\ map(o, fn).outcome.value.value = undefined

\* C9 (as stated): the containers built by of(null), ofNullable(null),
\* ofNullable(undefined) and empty() hold the same internal state, and every
\* operation has the outcome for ABSENT on all of them.
C9_Original ==
    \A i \in DOMAIN heap, j \in DOMAIN heap :
        (FromAbsent(i) /\ FromAbsent(j)) =>
            /\ heap[i] = heap[j]
            /\ AbsentOutcomes(heap[i])

\* C9 (amended): ofNullable(null), ofNullable(undefined) and empty() hold
\* the same internal state (the slot is undefined) while of(null) keeps null
\* in its slot; every operation still has the outcome for ABSENT on all four.
C9_AbsentEquivalence ==
    \A i \in DOMAIN heap, j \in DOMAIN heap :
        (FromAbsent(i) /\ FromAbsent(j)) =>
            /\ (builtBy[i].op # "of" /\ builtBy[j].op # "of")
                  => heap[i] = heap[j] /\ heap[i].value = undefined
            /\ builtBy[i].op = "of" => heap[i].value = null
            /\ AbsentOutcomes(heap[i])
            /\ last.this = i /\ last.op = "orElse"
                  => last.outcome = Return(last.args[1])
            /\ last.this = i /\ last.op = "get"
                  => last.outcome = Throw("No value present")

C9_Witness ==
    /\ Len(heap) = 2
    /\ builtBy[1] = [op |-> "of", args |-> <<null>>]
    /\ builtBy[2].op = "empty"
    /\ heap[1] # heap[2]
    /\ last.op = "orElse"
    /\ last.this = 1
    /\ last.args[1] \in NonAbsent
    /\ last.outcome = Return(last.args[1])

\* C10: for all v and fallback, each possibly absent,
\* ofNullable(ofNullable(v).orElse(fallback)).isPresent() is true whenever
\* v or fallback is non-absent, and the re-wrapped container holds v when v
\* is non-absent, otherwise fallback.
C10_RoundTrip ==
    (last.op = "orElse" /\ builtBy[last.this].op = "ofNullable") =>
        LET v        == BuiltFrom(last.this)
            fallback == last.args[1]
            rewrapped == ofNullable(last.outcome.value)
        IN  (v \in NonAbsent \/ fallback \in NonAbsent) =>
                /\ last.outcome.kind = "return"
                /\ isPresent(rewrapped)
                /\ get(rewrapped) =
                      Return(IF v \in NonAbsent THEN v ELSE fallback)

C10_Witness ==
    /\ last.op = "orElse"
    /\ builtBy[last.this].op = "ofNullable"
    /\ BuiltFrom(last.this) \in Absent
    /\ last.args[1] \in NonAbsent
    /\ isPresent(ofNullable(last.outcome.value))
    /\ ofNullable(last.outcome.value).value = last.args[1]
====
